---- MODULE Spec2Model ----
(***************************************************************************)
(* OS::Heat::ResourceChain (heat/engine/resources/openstack/heat/          *)
(* resource_chain.py): synthesis of the nested template, attribute         *)
(* resolution and projection of the referenced attributes as outputs.      *)
(*                                                                         *)
(* Python strings are sequences of one-character strings, so that          *)
(* startswith, split, join and text_type are computed and not assumed.     *)
(* Python's None for depends_on is the empty sequence of dependencies.     *)
(***************************************************************************)
EXTENDS Integers, Sequences, FiniteSets

VARIABLES
    properties,     \* self.properties: resources, concurrent, resource_properties
    declared,       \* the declaration most recently supplied to the resource
    referenced,     \* self.referenced_attrs(), in the order the loop visits it
    nested,         \* the template handed to the engine, and by which call
    attr_call,      \* the arguments of the get_attribute call
    attr_result,    \* what that call returned or raised, and what it queried
    names_result    \* what _resource_names returned

vars == <<properties, declared, referenced, nested, attr_call, attr_result,
          names_result>>

(***************************************************************************)
(* Bounds of the model.                                                    *)
(***************************************************************************)
\* longest declared type list
MaxLen == 3
\* most attributes the owning template references (projection alone)
MaxRefs == 2
\* most attributes the owning template references (create/update life cycle)
MaxLifeRefs == 1
\* longest declared type list handed to the slot namer alone
MaxNameLen == 11

(***************************************************************************)
(* Python string primitives.                                               *)
(***************************************************************************)
Digit(d) ==
    CASE d = 0 -> "0" [] d = 1 -> "1" [] d = 2 -> "2" [] d = 3 -> "3"
      [] d = 4 -> "4" [] d = 5 -> "5" [] d = 6 -> "6" [] d = 7 -> "7"
      [] d = 8 -> "8" [] d = 9 -> "9"

RECURSIVE text_type(_)
\* six.text_type(i) of a non-negative int: its decimal digits
text_type(i) ==
    IF i < 10 THEN <<Digit(i)>>
    ELSE text_type(i \div 10) \o <<Digit(i % 10)>>

\* str.startswith
StartsWith(s, prefix) ==
    /\ Len(s) >= Len(prefix)
    /\ SubSeq(s, 1, Len(prefix)) = prefix

\* str.find of a one-character separator, 1-based, 0 when absent
Find(s, sep) ==
    IF \E i \in 1..Len(s) : s[i] = sep
    THEN CHOOSE i \in 1..Len(s) : s[i] = sep /\ \A j \in 1..(i - 1) : s[j] # sep
    ELSE 0

RECURSIVE Split(_, _, _)
\* str.split(sep, maxsplit) for a one-character separator
Split(s, sep, maxsplit) ==
    IF maxsplit = 0 \/ Find(s, sep) = 0 THEN <<s>>
    ELSE <<SubSeq(s, 1, Find(s, sep) - 1)>>
            \o Split(SubSeq(s, Find(s, sep) + 1, Len(s)), sep, maxsplit - 1)

RECURSIVE Join(_, _)
\* sep.join(parts)
Join(sep, parts) ==
    IF Len(parts) = 0 THEN <<>>
    ELSE IF Len(parts) = 1 THEN parts[1]
    ELSE parts[1] \o sep \o Join(sep, Tail(parts))

\* keycomponents[2:], python list slice from index 2
SliceFrom2(seq) == IF Len(seq) <= 2 THEN <<>> ELSE SubSeq(seq, 3, Len(seq))

(***************************************************************************)
(* String literals of the source.                                          *)
(***************************************************************************)
REFS == <<"r", "e", "f", "s">>
ATTR_ATTRIBUTES == <<"a", "t", "t", "r", "i", "b", "u", "t", "e", "s">>
ATTRIBUTES == {REFS, ATTR_ATTRIBUTES}
RESOURCE_DOT == <<"r", "e", "s", "o", "u", "r", "c", "e", ".">>
COMMA_SPACE == <<",", " ">>

(***************************************************************************)
(* Inputs: declared properties and the referenced attributes.              *)
(***************************************************************************)
TypeNames == {"OS::Nova::Server", "OS::Heat::None"}
Payloads == {"None", "cfg"}

SeqsUpTo(S, n) == UNION {[1..k -> S] : k \in 0..n}

PropertySet(maxlen) ==
    [resources : SeqsUpTo(TypeNames, maxlen),
     concurrent : BOOLEAN,
     resource_properties : Payloads]

K_show == <<"s", "h", "o", "w">>
K_resource == <<"r", "e", "s", "o", "u", "r", "c", "e">>
P_a == <<"a">>
P_b == <<"b">>

\* keys a template can reference or a caller can query
KeyPool ==
    { REFS, ATTR_ATTRIBUTES, K_show, K_resource,
      RESOURCE_DOT,
      RESOURCE_DOT \o <<"0">>,
      RESOURCE_DOT \o <<"0", ".">>,
      RESOURCE_DOT \o <<"0", ".", "a">>,
      RESOURCE_DOT \o <<"2", ".", "a", ".", "b">>,
      RESOURCE_DOT \o <<"1", "0", ".", "a">>,
      RESOURCE_DOT \o <<"x", ".", "a">> }

PathPool == { <<>>, <<P_a>>, <<P_a, P_b>> }

\* referenced_attrs() entries: a plain string, or a tuple (key, path...)
StrAttr(key) == [is_string |-> TRUE, parts |-> <<key>>]
TupleAttr(key, path) == [is_string |-> FALSE, parts |-> <<key>> \o path]

AttrPool ==
    {StrAttr(k) : k \in KeyPool}
        \cup {TupleAttr(k, <<P_a>>) :
                k \in {REFS, ATTR_ATTRIBUTES, K_show,
                       RESOURCE_DOT \o <<"0">>,
                       RESOURCE_DOT \o <<"0", ".", "a">>}}

\* one attr of each kind, for the create/update life cycle
LifeAttrPool ==
    { StrAttr(K_show), StrAttr(REFS), TupleAttr(ATTR_ATTRIBUTES, <<P_a>>),
      StrAttr(RESOURCE_DOT \o <<"1", ".", "a">>) }

\* a set of referenced attributes in the order the loop iterates over it
Injective(f) == \A i, j \in DOMAIN f : i # j => f[i] # f[j]
ReferencedSeqs(pool, n) == {r \in SeqsUpTo(pool, n) : Injective(r)}

(***************************************************************************)
(* Values handed to the template engine.                                   *)
(***************************************************************************)
\* get_attr = functools.partial(functions['get_attr'], None, 'get_attr')
get_attr_fn(args) == [py |-> "get_attr", args |-> args]
PyList(items) == [py |-> "list", items |-> items]
PyDict(items) == [py |-> "dict", items |-> items]
OutputDefinition(name, value) == [name |-> name, value |-> value]
Range(seq) == {seq[i] : i \in DOMAIN seq}

(***************************************************************************)
(* ResourceChain._resource_names                                           *)
(***************************************************************************)
\* variant: a slot named after the first position holding its type,
\* as resource_types.index(t) would
ResourceNamesByTypeIndex(resource_types) ==
    [i \in 1..Len(resource_types) |->
        text_type((CHOOSE j \in 1..i :
                      /\ resource_types[j] = resource_types[i]
                      /\ \A k \in 1..(j - 1) : resource_types[k] # resource_types[i])
                  - 1)]

_resource_names(resource_types) ==
    [i \in 1..Len(resource_types) |-> text_type(i - 1)]

(***************************************************************************)
(* ResourceChain._build_resource_definition                                *)
(***************************************************************************)
_build_resource_definition(props, resource_name, resource_type, depends_on) ==
    [name |-> resource_name,
     resource_type |-> resource_type,
     properties |-> props.resource_properties,
     depends |-> depends_on]

(***************************************************************************)
(* ResourceChain._nested_output_defns: the body of the loop for one attr   *)
(* (zero or one yielded definition), then the loop.                        *)
(***************************************************************************)
AttrKey(attr) == attr.parts[1]
AttrPath(attr) == IF attr.is_string THEN <<>> ELSE Tail(attr.parts)
OutputName(attr) ==
    IF attr.is_string THEN attr.parts[1] ELSE Join(COMMA_SPACE, attr.parts)

\* variant: the branch without the membership test on res_name
ResourceOutputAnyName(attr, resource_names) ==
    LET keycomponents == Split(AttrKey(attr), ".", 2)
        res_name == keycomponents[2]
        attr_name == SliceFrom2(keycomponents)
    IN  IF attr_name # <<>>
        THEN <<OutputDefinition(OutputName(attr),
                    get_attr_fn(<<res_name>> \o attr_name \o AttrPath(attr)))>>
        ELSE <<>>

\* variant: the branch without the test that an attribute name follows
ResourceOutputAnyPath(attr, resource_names) ==
    LET keycomponents == Split(AttrKey(attr), ".", 2)
        res_name == keycomponents[2]
        attr_name == SliceFrom2(keycomponents)
    IN  IF res_name \in Range(resource_names)
        THEN <<OutputDefinition(OutputName(attr),
                    get_attr_fn(<<res_name>> \o attr_name \o AttrPath(attr)))>>
        ELSE <<>>

\* lines 171-177: the resource.<name>.<attr> branch
ResourceOutput(attr, resource_names) ==
    LET key == AttrKey(attr)
        path == AttrPath(attr)
        keycomponents == Split(key, ".", 2)
        res_name == keycomponents[2]
        attr_name == SliceFrom2(keycomponents)
    IN  IF attr_name # <<>> /\ res_name \in Range(resource_names)
        THEN <<OutputDefinition(OutputName(attr),
                    get_attr_fn(<<res_name>> \o attr_name \o path))>>
        ELSE <<>>

\* line 179: elif key == self.ATTR_ATTRIBUTES and path
IsAttributesWithPath(key, path) == key = ATTR_ATTRIBUTES /\ path # <<>>

\* lines 180-181
AttributesOutput(attr, resource_names) ==
    <<OutputDefinition(OutputName(attr),
          PyDict([r \in Range(resource_names) |->
                      get_attr_fn(<<r>> \o AttrPath(attr))]))>>

\* variant: the test leaves 'refs' out of the reserved names
IsGenericOrRefs(key) == key # ATTR_ATTRIBUTES

\* line 183: elif key not in self.ATTRIBUTES
IsGeneric(key) == key \notin ATTRIBUTES

\* variant: one definition per child instead of one list
GenericOutputPerChild(attr, resource_names) ==
    [i \in DOMAIN resource_names |->
        OutputDefinition(OutputName(attr),
            get_attr_fn(<<resource_names[i], AttrKey(attr)>> \o AttrPath(attr)))]

\* variant: the sub-path is not appended
GenericOutputNoPath(attr, resource_names) ==
    <<OutputDefinition(OutputName(attr),
          PyList([i \in DOMAIN resource_names |->
                      get_attr_fn(<<resource_names[i], AttrKey(attr)>>)]))>>

\* lines 184-185
GenericOutput(attr, resource_names) ==
    <<OutputDefinition(OutputName(attr),
          PyList([i \in DOMAIN resource_names |->
                      get_attr_fn(<<resource_names[i], AttrKey(attr)>>
                                      \o AttrPath(attr))]))>>

OutputDefnsFor(attr, resource_names) ==
    IF StartsWith(AttrKey(attr), RESOURCE_DOT)
    THEN ResourceOutput(attr, resource_names)
    ELSE IF IsAttributesWithPath(AttrKey(attr), AttrPath(attr))
    THEN AttributesOutput(attr, resource_names)
    ELSE IF IsGeneric(AttrKey(attr))
    THEN GenericOutput(attr, resource_names)
    ELSE <<>>

RECURSIVE _nested_output_defns(_, _)
_nested_output_defns(resource_names, attrs) ==
    IF attrs = <<>> THEN <<>>
    ELSE OutputDefnsFor(Head(attrs), resource_names)
            \o _nested_output_defns(resource_names, Tail(attrs))

(***************************************************************************)
(* ResourceChain.child_template                                            *)
(***************************************************************************)
\* variant: every later child depends on the first one
DependsOnFirst(props, resource_names, index) ==
    IF index > 0 /\ ~props.concurrent
    THEN <<resource_names[1]>>
    ELSE <<>>

DependsOn(props, resource_names, index) ==
    IF index > 0 /\ ~props.concurrent
    THEN <<resource_names[(index - 1) + 1]>>
    ELSE <<>>

NameDefTuples(props) ==
    LET resource_types == props.resources
        resource_names == _resource_names(resource_types)
    IN  [p \in DOMAIN resource_types |->
            LET index == p - 1
                name == resource_names[index + 1]
            IN  <<name,
                  _build_resource_definition(props, name, resource_types[p],
                        DependsOn(props, resource_names, index))>>]

\* scl_template.make_template(name_def_tuples), then add_output per definition
child_template(props, attrs) ==
    LET name_def_tuples == NameDefTuples(props)
        res_names == [p \in DOMAIN name_def_tuples |-> name_def_tuples[p][1]]
    IN  [resources |-> name_def_tuples,
         outputs |-> _nested_output_defns(res_names, attrs)]

\* self.create_with_template(t) / self.update_with_template(t)
HandedOver(call, template) ==
    [call |-> call, resources |-> template.resources, outputs |-> template.outputs]
NoTemplate == [call |-> "none", resources |-> <<>>, outputs |-> <<>>]
Built == nested.call # "none"
NoCall == [called |-> FALSE]

(***************************************************************************)
(* ResourceChain.handle_create / handle_update                             *)
(***************************************************************************)
handle_create ==
    /\ ~Built
    /\ nested' = HandedOver("create_with_template",
                            child_template(properties, referenced))
    /\ UNCHANGED <<properties, declared, referenced, attr_call, attr_result,
                   names_result>>

\* variant: the update keeps the properties it had
KeptProperties(old, json_snippet) == old

\* lines 109-110: self.properties = json_snippet.properties(...)
UpdatedProperties(old, json_snippet) == json_snippet

handle_update ==
    /\ Built
    /\ \E json_snippet \in PropertySet(MaxLen) :
        /\ declared' = json_snippet
        /\ properties' = UpdatedProperties(properties, json_snippet)
        /\ nested' = HandedOver("update_with_template",
                                child_template(properties', referenced))
    /\ UNCHANGED <<referenced, attr_call, attr_result, names_result>>

InitLife ==
    /\ properties \in PropertySet(MaxLen)
    /\ declared = properties
    /\ referenced \in ReferencedSeqs(LifeAttrPool, MaxLifeRefs)
    /\ nested = NoTemplate
    /\ attr_call = NoCall
    /\ attr_result = NoCall
    /\ names_result = NoCall

NextLife == handle_create \/ handle_update

Spec == InitLife /\ [][NextLife]_vars

(***************************************************************************)
(* Template synthesis alone: child_template applied once to drawn inputs.  *)
(* resource_properties is left at its default; the projector and the       *)
(* dependency wiring do not read it.                                       *)
(***************************************************************************)
InitTemplate ==
    /\ properties \in {p \in PropertySet(MaxLen) : p.resource_properties = "None"}
    /\ declared = properties
    /\ referenced \in ReferencedSeqs(AttrPool, MaxRefs)
    /\ nested = NoTemplate
    /\ attr_call = NoCall
    /\ attr_result = NoCall
    /\ names_result = NoCall

SpecTemplate == InitTemplate /\ [][handle_create]_vars

(***************************************************************************)
(* The nested-stack attribute service (heat.common.grouputils) and         *)
(* heat.engine.attributes.select_from_attribute: what the resolver calls.  *)
(* The service answers for every slot; its answers are kept symbolic.      *)
(***************************************************************************)
get_rsrc_id(resource_name) == [id_of |-> resource_name]
get_rsrc_attr(resource_name, attr_path) ==
    [attr_of |-> resource_name, path |-> attr_path]
get_nested_attrs(key, path) == [nested_attrs_of |-> key, path |-> path]
select_from_attribute(vals, path) ==
    IF path = <<>> THEN PyList(vals)
    ELSE PyList([i \in DOMAIN vals |-> [select_from |-> vals[i], path |-> path]])

Query(fn, resource_name, path) == [fn |-> fn, name |-> resource_name, path |-> path]

(***************************************************************************)
(* ResourceChain.get_attribute: the value returned or the exception        *)
(* raised, and the calls made to the attribute service, in order.          *)
(***************************************************************************)
Returned(value, queries) ==
    [called |-> TRUE, raised |-> FALSE, value |-> value, queries |-> queries]
Raised(exc, queries) ==
    [called |-> TRUE, raised |-> TRUE, value |-> exc, queries |-> queries]

\* variant: the identities are collected last slot first
RefsBranchReversed(names, path) ==
    Returned(select_from_attribute(
                [i \in DOMAIN names |-> get_rsrc_id(names[Len(names) + 1 - i])],
                path),
             [i \in DOMAIN names |->
                 Query("get_rsrc_id", names[Len(names) + 1 - i], <<>>)])

\* lines 149-150
RefsBranch(names, path) ==
    Returned(select_from_attribute(
                [i \in DOMAIN names |-> get_rsrc_id(names[i])], path),
             [i \in DOMAIN names |-> Query("get_rsrc_id", names[i], <<>>)])

\* variant: the children are queried before the path is tested
AttributesBranchLateCheck(names, key, path) ==
    IF path = <<>>
    THEN Raised([exc |-> "InvalidTemplateAttribute", key |-> key],
                [i \in DOMAIN names |-> Query("get_rsrc_attr", names[i], path)])
    ELSE Returned(PyDict([n \in Range(names) |-> get_rsrc_attr(n, path)]),
                  [i \in DOMAIN names |-> Query("get_rsrc_attr", names[i], path)])

\* lines 152-156
AttributesBranch(names, key, path) ==
    IF path = <<>>
    THEN Raised([exc |-> "InvalidTemplateAttribute", key |-> key], <<>>)
    ELSE Returned(PyDict([n \in Range(names) |-> get_rsrc_attr(n, path)]),
                  [i \in DOMAIN names |-> Query("get_rsrc_attr", names[i], path)])

\* lines 158-160
GenericBranch(names, key, path) ==
    Returned(PyList([i \in DOMAIN names |->
                        get_rsrc_attr(names[i], <<key>> \o path)]),
             [i \in DOMAIN names |->
                 Query("get_rsrc_attr", names[i], <<key>> \o path)])

get_attribute(props, key, path) ==
    LET resource_types == props.resources
        names == _resource_names(resource_types)
    IN  IF StartsWith(key, RESOURCE_DOT)
        THEN Returned(get_nested_attrs(key, path),
                      <<Query("get_nested_attrs", key, path)>>)
        ELSE IF key = REFS THEN RefsBranch(names, path)
        ELSE IF key = ATTR_ATTRIBUTES THEN AttributesBranch(names, key, path)
        ELSE GenericBranch(names, key, path)

GetAttribute ==
    /\ \E key \in KeyPool, path \in PathPool :
        /\ attr_call' = [called |-> TRUE, key |-> key, path |-> path]
        /\ attr_result' = get_attribute(properties, key, path)
    /\ UNCHANGED <<properties, declared, referenced, nested, names_result>>

InitAttr ==
    /\ properties \in PropertySet(MaxLen)
    /\ declared = properties
    /\ referenced = <<>>
    /\ nested = NoTemplate
    /\ attr_call = NoCall
    /\ attr_result = NoCall
    /\ names_result = NoCall

SpecAttr == InitAttr /\ [][GetAttribute]_vars

(***************************************************************************)
(* The slot namer alone, on longer type lists.                             *)
(***************************************************************************)
ResourceNames ==
    /\ names_result' =
            [called |-> TRUE, value |-> _resource_names(properties.resources)]
    /\ UNCHANGED <<properties, declared, referenced, nested, attr_call,
                   attr_result>>

InitNames ==
    /\ properties \in {p \in PropertySet(MaxNameLen) :
                            ~p.concurrent /\ p.resource_properties = "None"}
    /\ declared = properties
    /\ referenced = <<>>
    /\ nested = NoTemplate
    /\ attr_call = NoCall
    /\ attr_result = NoCall
    /\ names_result = NoCall

SpecNames == InitNames /\ [][ResourceNames]_vars

(***************************************************************************)
(* Properties.                                                             *)
(***************************************************************************)
\* the slot identifier of 0-based position i
SlotId(i) == text_type(i)
ChildName(p) == nested.resources[p][1]
ChildDefn(p) == nested.resources[p][2]
ChildNames == {ChildName(p) : p \in DOMAIN nested.resources}
\* the positions of the outputs that carry the name of a referenced attr
OutputsNamed(name) == {i \in DOMAIN nested.outputs : nested.outputs[i].name = name}
IsResourceKey(key) == StartsWith(key, RESOURCE_DOT)

\* C1: in a built template for N types, when concurrent is false child 0 has
\* no dependency and child i > 0 depends on exactly the slot of position i-1;
\* when concurrent is true no child has a dependency (N = 0 and 1 included).
C1_DependencyWiring ==
    Built =>
        /\ Len(nested.resources) = Len(properties.resources)
        /\ \A p \in DOMAIN nested.resources :
            /\ ChildName(p) = SlotId(p - 1)
            /\ ChildDefn(p).depends =
                    IF ~properties.concurrent /\ p > 1
                    THEN <<SlotId(p - 2)>>
                    ELSE <<>>

C1_Witness ==
    /\ Built
    /\ ~properties.concurrent
    /\ Len(nested.resources) = 3
    /\ ChildDefn(1).depends = <<>>
    /\ ChildDefn(3).depends = <<ChildName(2)>>

\* C2: _resource_names returns N pairwise distinct identifiers for a list of
\* N types, repeated type names included, and the same identifiers for any
\* other list of that length (the list of N equal types, the reversed list).
C2_NamesDistinctByPosition ==
    names_result.called =>
        LET types == properties.resources
            N == Len(types)
            names == names_result.value
        IN  /\ Len(names) = N
            /\ \A i, j \in 1..N : i # j => names[i] # names[j]
            /\ names = _resource_names([i \in 1..N |-> "OS::Heat::None"])
            /\ names = _resource_names([i \in 1..N |-> types[N + 1 - i]])

C2_Witness ==
    /\ names_result.called
    /\ Len(names_result.value) >= 11
    /\ properties.resources[1] = properties.resources[2]
    /\ properties.resources[1] # properties.resources[3]

C4_OutputsBoundedByKeys ==
    Built =>
        /\ Len(nested.outputs) <= Cardinality(Range(referenced))
        /\ \A a \in Range(referenced) :
                Cardinality(OutputsNamed(OutputName(a))) <= 1

C4_Witness ==
    /\ Built
    /\ Len(properties.resources) = 3
    /\ Len(referenced) = 2
    /\ Len(nested.outputs) = 2
    /\ \A i \in DOMAIN nested.outputs : nested.outputs[i].value.py = "list"

\* C5 as stated: an empty type list gives a template with zero children and
\* zero outputs, whatever the owning template references.
C5_EmptyListNoOutputs ==
    (Built /\ properties.resources = <<>>) =>
        /\ Len(nested.resources) = 0
        /\ Len(nested.outputs) = 0

\* a referenced attr that is projected as an aggregate over the children
IsAggregateAttr(a) ==
    /\ ~IsResourceKey(AttrKey(a))
    /\ \/ AttrKey(a) \notin {REFS, ATTR_ATTRIBUTES}
       \/ AttrKey(a) = ATTR_ATTRIBUTES /\ AttrPath(a) # <<>>

\* C5 amended: an empty type list gives a template with zero children and
\* one output per referenced key that is generic or is 'attributes' with a
\* sub-path, each an empty aggregate (empty list, empty mapping); no other
\* referenced key gives an output.
C5_EmptyListEmptyAggregates ==
    (Built /\ properties.resources = <<>>) =>
        /\ Len(nested.resources) = 0
        /\ \A i \in DOMAIN nested.outputs :
            /\ nested.outputs[i].value.py \in {"list", "dict"}
            /\ nested.outputs[i].value.items = <<>>
        /\ Len(nested.outputs) =
                Cardinality({a \in Range(referenced) : IsAggregateAttr(a)})
        /\ \A a \in Range(referenced) :
                ~IsAggregateAttr(a) => OutputsNamed(OutputName(a)) = {}

C5_Witness ==
    /\ Built
    /\ properties.resources = <<>>
    /\ Len(referenced) = 2
    /\ Len(nested.outputs) = 1

C7_ReservedKeysNotProjected ==
    Built =>
        \A a \in Range(referenced) :
            /\ (AttrKey(a) \in {REFS, ATTR_ATTRIBUTES} /\ AttrPath(a) = <<>>)
                    => OutputsNamed(OutputName(a)) = {}
            /\ (AttrKey(a) = ATTR_ATTRIBUTES /\ OutputsNamed(OutputName(a)) # {})
                    => AttrPath(a) # <<>>

C7_Witness ==
    /\ Built
    /\ Len(properties.resources) = 3
    /\ Len(referenced) = 2
    /\ AttrKey(referenced[1]) = REFS /\ AttrPath(referenced[1]) = <<>>
    /\ AttrKey(referenced[2]) = ATTR_ATTRIBUTES /\ AttrPath(referenced[2]) # <<>>
    /\ Len(nested.outputs) = 1
    /\ nested.outputs[1].value.py = "dict"

\* C8: a referenced key that is neither resource-prefixed nor 'refs' nor
\* 'attributes' gives exactly one output, with or without sub-path: a list
\* with one entry per child, entry i the lookup of that attribute (and
\* sub-path) in the slot of position i.
C8_GenericKeyAggregated ==
    Built =>
        \A a \in Range(referenced) :
            (~IsResourceKey(AttrKey(a)) /\ AttrKey(a) \notin {REFS, ATTR_ATTRIBUTES}) =>
                /\ Cardinality(OutputsNamed(OutputName(a))) = 1
                /\ \A o \in OutputsNamed(OutputName(a)) :
                    /\ nested.outputs[o].value.py = "list"
                    /\ Len(nested.outputs[o].value.items) = Len(properties.resources)
                    /\ \A i \in DOMAIN nested.outputs[o].value.items :
                            nested.outputs[o].value.items[i] =
                                get_attr_fn(<<SlotId(i - 1), AttrKey(a)>> \o AttrPath(a))

C8_Witness ==
    /\ Built
    /\ Len(properties.resources) = 3
    /\ referenced = <<TupleAttr(K_show, <<P_a>>), StrAttr(K_resource)>>
    /\ Len(nested.outputs) = 2

C10_TemplateFromLatestDeclaration ==
    Built =>
        /\ [p \in DOMAIN nested.resources |-> ChildDefn(p).resource_type]
                = declared.resources
        /\ \A p \in DOMAIN nested.resources :
            /\ ChildDefn(p).name = ChildName(p)
            /\ ChildDefn(p).properties = declared.resource_properties
            /\ ChildDefn(p).depends =
                    IF ~declared.concurrent /\ p > 1
                    THEN <<ChildName(p - 1)>>
                    ELSE <<>>

C10_Witness ==
    /\ nested.call = "update_with_template"
    /\ declared.resources = <<"OS::Heat::None", "OS::Nova::Server", "OS::Heat::None">>
    /\ properties = declared
    /\ Len(nested.resources) = 3
====
